---- MODULE Spec2Model ----
(***************************************************************************)
(* Model of the AMM arbitrage V2 controller                                *)
(* (hummingbot/strategy/amm_arb/amm_arb_controller.py, amm_arb_config.py). *)
(*                                                                         *)
(* Order amounts are Python Decimals.  A Decimal is modelled by the record *)
(* [neg, coef, exp]: sign, coefficient as a sequence of decimal digits     *)
(* (most significant first, no leading zero, <<>> for zero) and exponent,  *)
(* and every arithmetic operation rounds its exact result to Prec          *)
(* significant digits, half to even, as the default decimal context does.  *)
(* Prices, fees and buffers have few digits, their Decimal arithmetic is   *)
(* exact, and they are modelled as scaled integers.                        *)
(***************************************************************************)
EXTENDS Integers, Sequences, FiniteSets, TLC

(* ---------------- Decimal arithmetic (decimal default context) --------- *)

\* significant digits of the default decimal context
Prec == 28

Zeros(n) == [k \in 1..n |-> 0]

RECURSIVE StripLead(_)
StripLead(s) ==
  IF s = <<>> THEN <<>>
  ELSE IF Head(s) = 0 THEN StripLead(Tail(s)) ELSE s

PadTo(s, n) == Zeros(n - Len(s)) \o s

RECURSIVE LexCmp(_, _, _)
LexCmp(a, b, k) ==
  IF k > Len(a) THEN 0
  ELSE IF a[k] < b[k] THEN -1
  ELSE IF a[k] > b[k] THEN 1
  ELSE LexCmp(a, b, k + 1)

\* comparison of two digit sequences without leading zeros: -1, 0 or 1
NatCmp(a, b) ==
  IF Len(a) < Len(b) THEN -1
  ELSE IF Len(a) > Len(b) THEN 1
  ELSE LexCmp(a, b, 1)

RECURSIVE AddDigits(_, _, _, _)
AddDigits(A, B, k, c) ==
  IF k = 0 THEN <<>>
  ELSE LET s == A[k] + B[k] + c
       IN Append(AddDigits(A, B, k - 1, s \div 10), s % 10)

\* a + b on digit sequences
NatAdd(a, b) ==
  LET n == (IF Len(a) > Len(b) THEN Len(a) ELSE Len(b)) + 1
  IN StripLead(AddDigits(PadTo(a, n), PadTo(b, n), n, 0))

RECURSIVE SubDigits(_, _, _, _)
SubDigits(A, B, k, br) ==
  IF k = 0 THEN <<>>
  ELSE LET d == A[k] - B[k] - br
       IN Append(SubDigits(A, B, k - 1, IF d < 0 THEN 1 ELSE 0),
                 IF d < 0 THEN d + 10 ELSE d)

\* a - b on digit sequences, for a >= b
NatSub(a, b) ==
  LET n == Len(a)
  IN StripLead(SubDigits(a, PadTo(b, n), n, 0))

RECURSIVE MulDigits(_, _, _, _)
MulDigits(A, m, k, c) ==
  IF k = 0 THEN <<>>
  ELSE LET p == A[k] * m + c
       IN Append(MulDigits(A, m, k - 1, p \div 10), p % 10)

\* a * m for a digit sequence a and a small natural number m (m < 100)
NatMulInt(a, m) ==
  LET n == Len(a) + 2
  IN StripLead(MulDigits(PadTo(a, n), m, n, 0))

RECURSIVE DivDigits(_, _, _)
DivDigits(A, m, k) ==
  IF k = 0 THEN [q |-> <<>>, r |-> 0]
  ELSE LET p == DivDigits(A, m, k - 1)
           cur == p.r * 10 + A[k]
       IN [q |-> Append(p.q, cur \div m), r |-> cur % m]

\* divmod(a, m) for a digit sequence a and a small natural number m
NatDivModInt(a, m) ==
  LET p == DivDigits(a, m, Len(a))
  IN [q |-> StripLead(p.q), r |-> p.r]

\* number of decimal digits of a small natural number
IntLen(m) == IF m < 10 THEN 1 ELSE IF m < 100 THEN 2 ELSE 3

\* Decimal._fix: round the coefficient to Prec digits, ROUND_HALF_EVEN
DecFix(neg, coef, exp) ==
  IF Len(coef) <= Prec THEN [neg |-> neg, coef |-> coef, exp |-> exp]
  ELSE LET drop == Len(coef) - Prec
           kept == SubSeq(coef, 1, Prec)
           rest == SubSeq(coef, Prec + 1, Len(coef))
           tailNonzero == \E k \in 2..Len(rest) : rest[k] # 0
           up == \/ rest[1] > 5
                 \/ rest[1] = 5 /\ tailNonzero
                 \/ rest[1] = 5 /\ ~tailNonzero /\ kept[Prec] % 2 = 1
           k2 == IF up THEN NatAdd(kept, <<1>>) ELSE kept
       IN IF Len(k2) > Prec
            THEN [neg |-> neg, coef |-> SubSeq(k2, 1, Prec), exp |-> exp + drop + 1]
            ELSE [neg |-> neg, coef |-> k2, exp |-> exp + drop]

DecIsZero(a) == a.coef = <<>>

DecNeg(a) == [a EXCEPT !.neg = ~a.neg]

\* the coefficient of a at the (smaller or equal) exponent e
CoefAt(a, e) == IF DecIsZero(a) THEN <<>> ELSE a.coef \o Zeros(a.exp - e)

MinExp(a, b) == IF a.exp < b.exp THEN a.exp ELSE b.exp

\* Decimal.__add__: exact sum of the aligned coefficients, then _fix
DecAdd(a, b) ==
  LET e == MinExp(a, b)
      A == CoefAt(a, e)
      B == CoefAt(b, e)
      c == NatCmp(A, B)
  IN IF a.neg = b.neg THEN DecFix(a.neg, NatAdd(A, B), e)
     ELSE IF c = 0 THEN DecFix(FALSE, <<>>, e)
     ELSE IF c > 0 THEN DecFix(a.neg, NatSub(A, B), e)
     ELSE DecFix(b.neg, NatSub(B, A), e)

\* Decimal.__sub__
DecSub(a, b) == DecAdd(a, DecNeg(b))

RECURSIVE StripTrail(_, _, _)
StripTrail(coef, exp, ideal) ==
  IF exp < ideal /\ coef # <<>> /\ coef[Len(coef)] = 0
    THEN StripTrail(SubSeq(coef, 1, Len(coef) - 1), exp + 1, ideal)
    ELSE [coef |-> coef, exp |-> exp]

\* Decimal.__truediv__ by a small positive int m: the quotient with
\* Prec + 1 or Prec + 2 digits and a sticky last digit, then _fix
DecDivInt(a, m) ==
  IF DecIsZero(a) THEN [neg |-> a.neg, coef |-> <<>>, exp |-> a.exp]
  ELSE LET shift == IntLen(m) - Len(a.coef) + Prec + 1
           exp == a.exp - shift
           qr == NatDivModInt(a.coef \o Zeros(shift), m)
           sticky == IF qr.r # 0 /\ qr.q[Len(qr.q)] % 5 = 0
                       THEN NatAdd(qr.q, <<1>>) ELSE qr.q
           exact == StripTrail(qr.q, exp, a.exp)
       IN IF qr.r # 0 THEN DecFix(a.neg, sticky, exp)
          ELSE DecFix(a.neg, exact.coef, exact.exp)

\* Decimal.__rmul__ with a small natural number m (int * Decimal)
DecMulInt(m, a) ==
  IF m = 0 \/ DecIsZero(a) THEN [neg |-> a.neg, coef |-> <<>>, exp |-> a.exp]
  ELSE DecFix(a.neg, NatMulInt(a.coef, m), a.exp)

\* comparison of two Decimals by value: -1, 0 or 1
DecCmp(a, b) ==
  LET e == MinExp(a, b)
      c == NatCmp(CoefAt(a, e), CoefAt(b, e))
      za == DecIsZero(a)
      zb == DecIsZero(b)
  IN IF za /\ zb THEN 0
     ELSE IF za THEN (IF b.neg THEN 1 ELSE -1)
     ELSE IF zb THEN (IF a.neg THEN -1 ELSE 1)
     ELSE IF a.neg # b.neg THEN (IF a.neg THEN -1 ELSE 1)
     ELSE IF a.neg THEN -c ELSE c

DecEq(a, b) == DecCmp(a, b) = 0
DecLe(a, b) == DecCmp(a, b) <= 0
DecLt(a, b) == DecCmp(a, b) < 0

\* Decimal literal: digits d at exponent e, e.g. Dec(<<1, 0>>, -1) = 1.0
Dec(d, e) == [neg |-> FALSE, coef |-> StripLead(d), exp |-> e]

(* ---------------- Configuration (amm_arb_config.py) -------------------- *)

\* Python's None
None == [none |-> TRUE]

\* number of cycles of the external scheduler that are explored
MaxCycles == 2

\* AmmArbV2Config: the fields are plain values and the class defines no
\* validator, so any combination of values loads.  Amounts are Decimals,
\* min_profitability is in thousandths and slippage buffers are in
\* hundredths (0.005 is 5, 0.01 is 1).
MkConfig(c1, c2, mn, mx, mp, b1, b2) ==
  [id |-> "main",
   connector_1 |-> c1, trading_pair_1 |-> "BTC-USDT",
   connector_2 |-> c2, trading_pair_2 |-> "WBTC-WETH",
   min_order_amount |-> mn, max_order_amount |-> mx,
   min_profitability |-> mp,
   market_1_slippage_buffer |-> b1, market_2_slippage_buffer |-> b2]

\* the configurations explored: the defaults; two ranges whose step is
\* rounded; min = max; one connector used twice; max < min with a negative
\* buffer
Configs ==
  { MkConfig("binance", "uniswap_v2", Dec(<<1>>, -2), Dec(<<1, 0>>, -1), 5, 1, 1),
    MkConfig("binance", "uniswap_v2", Dec(<<5>>, -1), Dec(<<1, 0>>, -1), 20, 0, 5),
    MkConfig("binance", "uniswap_v2", Dec(<<1>>, -2), Dec(<<2, 6>>, -2), 30, 5, 1),
    MkConfig("binance", "uniswap_v2", Dec(<<1>>, 0), Dec(<<1>>, 0), 0, 1, 5),
    MkConfig("binance", "binance", Dec(<<1>>, -2), Dec(<<1, 0>>, -1), 5, 1, 5),
    MkConfig("binance", "uniswap_v2", Dec(<<1, 0>>, -1), Dec(<<1>>, -2), 5, -1, 1) }

\* AmmArbV2Config.markets: the connector pair behind each market key
markets(cfg) ==
  [market_1 |-> [name |-> cfg.connector_1, trading_pair |-> cfg.trading_pair_1],
   market_2 |-> [name |-> cfg.connector_2, trading_pair |-> cfg.trading_pair_2]]

(* ---------------- Quote provider and proposals ------------------------- *)

\* The venues' answers during one cycle.  A venue quotes a price that
\* depends on the requested amount through three depth bands, charges a fee
\* (in hundredths) and cannot fill more than its depth (None: no limit).
BandEdges == <<Dec(<<3>>, -1), Dec(<<7>>, -1)>>

Band(amount) ==
  IF DecLe(amount, BandEdges[1]) THEN 1
  ELSE IF DecLe(amount, BandEdges[2]) THEN 2 ELSE 3

Curves == { <<100, 100, 100>>, <<100, 103, 101>>,
            <<103, 100, 101>>, <<101, 100, 100>> }

Fees == {0, 1}

Depths == {None, Dec(<<6>>, -1)}

Books ==
  { [market_1 |-> [price |-> p1, fee |-> f, depth |-> None],
     market_2 |-> [price |-> p2, fee |-> f, depth |-> d]] :
      p1 \in Curves, p2 \in Curves, f \in Fees, d \in Depths }

\* whether the venue can fill the amount
CanQuote(venue, amount) == venue.depth = None \/ DecLe(amount, venue.depth)

\* the price the venue quotes for the amount
QuotePrice(venue, amount) == venue.price[Band(amount)]

\* One ArbProposalSide
Side(key, cfg, book, is_buy, amount) ==
  [market_info |-> markets(cfg)[key], is_buy |-> is_buy, amount |-> amount,
   order_price |-> QuotePrice(book[key], amount), fee |-> book[key].fee]

\* create_arb_proposals(market_info_1, market_info_2, order_amount): the
\* proposal buying on market_info_1 and selling on market_info_2 first, the
\* reverse one second; "InsufficientLiquidity" when a venue cannot quote
create_arb_proposals(k1, k2, cfg, book, amount) ==
  IF ~CanQuote(book[k1], amount) \/ ~CanQuote(book[k2], amount)
    THEN "InsufficientLiquidity"
    ELSE << [first_side |-> Side(k1, cfg, book, TRUE, amount),
             second_side |-> Side(k2, cfg, book, FALSE, amount)],
            [first_side |-> Side(k2, cfg, book, TRUE, amount),
             second_side |-> Side(k1, cfg, book, FALSE, amount)] >>

\* ArbProposal.profit_pct(account_for_fee=True) = proceeds / outlay - 1, kept
\* as the exact fraction num / den - 1 (the amount is the same on both sides)
profit_pct(proposal) ==
  LET buy == IF proposal.first_side.is_buy THEN proposal.first_side
             ELSE proposal.second_side
      sell == IF proposal.first_side.is_buy THEN proposal.second_side
              ELSE proposal.first_side
  IN [num |-> sell.order_price * (100 - sell.fee),
      den |-> buy.order_price * (100 + buy.fee)]

\* a > b, a > 0 and a >= m / 1000 on profit fractions
ProfitGt(a, b) == a.num * b.den > b.num * a.den
ProfitPositive(a) == a.num > a.den
ProfitAtLeast(a, m) == a.num * 1000 >= a.den * (1000 + m)

\* Decimal("-1")
MinusOne == [num |-> 0, den |-> 1]

(* ---------------- Controller (amm_arb_controller.py) ------------------- *)

VARIABLES
  config,               \* self.config
  book,                 \* the venues' answers during the current cycle
  pc,                   \* position of determine_actions
  cycles,               \* invocations of determine_actions so far
  direction,            \* 1: buy market_1 / sell market_2, 2: the reverse
  i,                    \* loop index of the running sweep
  order_amount,         \* amount of the last sample requested
  best_profit_pct,      \* running best of the sweep
  best_proposal,
  opp1, opp2,           \* results of the two sweeps
  optimal_opportunity,  \* result of find_optimal_arb_opportunity
  last_proposal,        \* self.last_proposal
  executors,            \* list returned by determine_actions
  outcome               \* how the last invocation ended

vars == <<config, book, pc, cycles, direction, i, order_amount,
          best_profit_pct, best_proposal, opp1, opp2, optimal_opportunity,
          last_proposal, executors, outcome>>

\* Number of sizes to check
num_steps == 20

\* step_size = (max_order_amount - min_order_amount) / (num_steps - 1)
StepSize(cfg) ==
  DecDivInt(DecSub(cfg.max_order_amount, cfg.min_order_amount), num_steps - 1)

\* order_amount = min_order_amount + i * step_size
SampleAmount(cfg, k) ==
  DecAdd(cfg.min_order_amount, DecMulInt(k, StepSize(cfg)))

\* the amounts of a sweep, computed once for each configuration explored
SampleTable ==
  [cfg \in Configs |-> [k \in 0..(num_steps - 1) |-> SampleAmount(cfg, k)]]

\* truth value of an Optional tuple or object
Truthy(x) == x # None

\* variant of IsNewBest: a sample as profitable as the running best replaces it
IsNewBestOrEqual(profit, best) == ~ProfitGt(best, profit)

\* if profit_pct > best_profit_pct
IsNewBest(profit, best) == ProfitGt(profit, best)

\* variant of SweepResult: a best profitability of zero is returned
SweepResultNonNegative(proposal, profit) ==
  IF Truthy(proposal) /\ profit.num >= profit.den
    THEN [proposal |-> proposal, profit_pct |-> profit]
    ELSE None

\* if best_proposal and best_profit_pct > 0: return ...; return None
SweepResult(proposal, profit) ==
  IF Truthy(proposal) /\ ProfitPositive(profit)
    THEN [proposal |-> proposal, profit_pct |-> profit]
    ELSE None

\* variant of SelectOpportunity: the first direction wins a tie
SelectOpportunityTieFirst(o1, o2) ==
  IF Truthy(o1) /\ Truthy(o2)
    THEN (IF ProfitGt(o2.profit_pct, o1.profit_pct) THEN o2 ELSE o1)
    ELSE (IF Truthy(o1) THEN o1 ELSE o2)

\* if opp1 and opp2: return opp1 if opp1[1] > opp2[1] else opp2
\* return opp1 or opp2
SelectOpportunity(o1, o2) ==
  IF Truthy(o1) /\ Truthy(o2)
    THEN (IF ProfitGt(o1.profit_pct, o2.profit_pct) THEN o1 ELSE o2)
    ELSE (IF Truthy(o1) THEN o1 ELSE o2)

\* variant of get_slippage_buffer: the side is matched against connector_2
get_slippage_buffer_second(cfg, side) ==
  IF side.market_info.name = cfg.connector_2
    THEN cfg.market_2_slippage_buffer
    ELSE cfg.market_1_slippage_buffer

get_slippage_buffer(cfg, side) ==
  IF side.market_info.name = cfg.connector_1
    THEN cfg.market_1_slippage_buffer
    ELSE cfg.market_2_slippage_buffer

\* variant of create_order_candidate: the buffer is applied with the sign of
\* the other trade direction
create_order_candidate_inverted(cfg, side) ==
  LET slippage_buffer == get_slippage_buffer(cfg, side)
      price_adjustment == 100 + (IF side.is_buy THEN -slippage_buffer
                                 ELSE slippage_buffer)
  IN [trading_pair |-> side.market_info.trading_pair,
      is_maker |-> FALSE,
      trade_type |-> IF side.is_buy THEN "BUY" ELSE "SELL",
      order_type |-> "TAKER",
      amount |-> side.amount,
      price |-> side.order_price * price_adjustment]

\* the price of the candidate is in hundredths of the quoted price's unit
create_order_candidate(cfg, side) ==
  LET slippage_buffer == get_slippage_buffer(cfg, side)
      price_adjustment == 100 + (IF side.is_buy THEN slippage_buffer
                                 ELSE -slippage_buffer)
  IN [trading_pair |-> side.market_info.trading_pair,
      is_maker |-> FALSE,
      trade_type |-> IF side.is_buy THEN "BUY" ELSE "SELL",
      order_type |-> "TAKER",
      amount |-> side.amount,
      price |-> side.order_price * price_adjustment]

create_executors(cfg, proposal) ==
  [k \in 1..2 |->
     [controller_id |-> cfg.id,
      executor_name |-> "dca_simple",
      config |-> [order_candidate |->
                    create_order_candidate(cfg, IF k = 1 THEN proposal.first_side
                                                ELSE proposal.second_side)]]]

\* buy and sell market of the running sweep
BuyKey == IF direction = 1 THEN "market_1" ELSE "market_2"
SellKey == IF direction = 1 THEN "market_2" ELSE "market_1"

Init ==
  /\ config \in Configs
  /\ book = None
  /\ pc = "idle"
  /\ cycles = 0
  /\ direction = 1
  /\ i = 0
  /\ order_amount = None
  /\ best_profit_pct = MinusOne
  /\ best_proposal = None
  /\ opp1 = None
  /\ opp2 = None
  /\ optimal_opportunity = None
  /\ last_proposal = None
  /\ executors = <<>>
  /\ outcome = "none"

\* the scheduler invokes determine_actions, which enters the first sweep;
\* the venues answer this cycle from a fresh book
StartCycle ==
  /\ pc = "idle"
  /\ cycles < MaxCycles
  /\ book' \in Books
  /\ pc' = "sweep"
  /\ cycles' = cycles + 1
  /\ direction' = 1
  /\ i' = 0
  /\ order_amount' = None
  /\ best_profit_pct' = MinusOne
  /\ best_proposal' = None
  /\ opp1' = None
  /\ opp2' = None
  /\ optimal_opportunity' = None
  /\ executors' = <<>>
  /\ outcome' = "running"
  /\ UNCHANGED <<config, last_proposal>>

\* variant of EvaluateSample: the running best is published into the slot
EvaluateSamplePublishing ==
  /\ pc = "sweep"
  /\ i < num_steps
  /\ LET amount == SampleTable[config][i]
         proposals == create_arb_proposals(BuyKey, SellKey, config, book, amount)
     IN /\ proposals # "InsufficientLiquidity"
        /\ LET proposal == proposals[1]
               profit == profit_pct(proposal)
           IN /\ order_amount' = amount
              /\ IF IsNewBest(profit, best_profit_pct)
                   THEN /\ best_profit_pct' = profit
                        /\ best_proposal' = proposal
                        /\ last_proposal' = proposal
                   ELSE UNCHANGED <<best_profit_pct, best_proposal, last_proposal>>
  /\ i' = i + 1
  /\ UNCHANGED <<config, book, pc, cycles, direction, opp1, opp2,
                 optimal_opportunity, executors, outcome>>

\* one iteration of the loop whose proposal is built
EvaluateSample ==
  /\ pc = "sweep"
  /\ i < num_steps
  /\ LET amount == SampleTable[config][i]
         proposals == create_arb_proposals(BuyKey, SellKey, config, book, amount)
     IN /\ proposals # "InsufficientLiquidity"
        /\ LET proposal == proposals[1]
               profit == profit_pct(proposal)
           IN /\ order_amount' = amount
              /\ IF IsNewBest(profit, best_profit_pct)
                   THEN /\ best_profit_pct' = profit
                        /\ best_proposal' = proposal
                   ELSE UNCHANGED <<best_profit_pct, best_proposal>>
  /\ i' = i + 1
  /\ UNCHANGED <<config, book, pc, cycles, direction, opp1, opp2,
                 optimal_opportunity, last_proposal, executors, outcome>>

\* an exception or a cancellation raised at the await of the loop leaves
\* the loop, both sweeps' caller and determine_actions: none handles it,
\* and the locals of the three frames are dropped
Raise(what) ==
  /\ pc' = "idle"
  /\ outcome' = what
  /\ direction' = 1
  /\ i' = 0
  /\ order_amount' = None
  /\ best_profit_pct' = MinusOne
  /\ best_proposal' = None
  /\ opp1' = None
  /\ opp2' = None
  /\ optimal_opportunity' = None
  /\ UNCHANGED <<config, book, cycles, last_proposal, executors>>

\* one iteration of the loop for an amount a venue cannot quote
SampleInsufficientLiquidity ==
  /\ pc = "sweep"
  /\ i < num_steps
  /\ create_arb_proposals(BuyKey, SellKey, config, book,
                          SampleTable[config][i])
       = "InsufficientLiquidity"
  /\ Raise("InsufficientLiquidity")

\* the quote provider is unreachable during a request
SampleQuoteProviderUnavailable ==
  /\ pc = "sweep"
  /\ i < num_steps
  /\ Raise("QuoteProviderUnavailable")

\* the invocation is cancelled while it awaits a request
Cancel ==
  /\ pc = "sweep"
  /\ i < num_steps
  /\ Raise("CancelledError")

\* the end of a sweep: its result becomes opp1 and the reverse sweep starts,
\* or it becomes opp2 and both are compared
FinishSweep ==
  /\ pc = "sweep"
  /\ i = num_steps
  /\ LET result == SweepResult(best_proposal, best_profit_pct)
     IN IF direction = 1
          THEN /\ opp1' = result
               /\ direction' = 2
               /\ i' = 0
               /\ best_profit_pct' = MinusOne
               /\ best_proposal' = None
               /\ UNCHANGED <<pc, opp2>>
          ELSE /\ opp2' = result
               /\ pc' = "select"
               /\ UNCHANGED <<direction, i, best_profit_pct, best_proposal, opp1>>
  /\ UNCHANGED <<config, book, cycles, order_amount, optimal_opportunity,
                 last_proposal, executors, outcome>>

\* find_optimal_arb_opportunity returns
find_optimal_arb_opportunity ==
  /\ pc = "select"
  /\ optimal_opportunity' = SelectOpportunity(opp1, opp2)
  /\ pc' = "decide"
  /\ UNCHANGED <<config, book, cycles, direction, i, order_amount,
                 best_profit_pct, best_proposal, opp1, opp2,
                 last_proposal, executors, outcome>>

\* variant of determine_actions: the slot is written only behind the gate
determine_actions_gated_slot ==
  /\ pc = "decide"
  /\ IF Truthy(optimal_opportunity)
        /\ ProfitAtLeast(optimal_opportunity.profit_pct, config.min_profitability)
       THEN /\ last_proposal' = optimal_opportunity.proposal
            /\ executors' = create_executors(config, optimal_opportunity.proposal)
       ELSE /\ executors' = <<>>
            /\ UNCHANGED last_proposal
  /\ pc' = "idle"
  /\ outcome' = "returned"
  /\ UNCHANGED <<config, book, cycles, direction, i, order_amount,
                 best_profit_pct, best_proposal, opp1, opp2,
                 optimal_opportunity>>

\* determine_actions after the await: the slot, the gate, the executors
determine_actions ==
  /\ pc = "decide"
  /\ IF ~Truthy(optimal_opportunity)
       THEN /\ executors' = <<>>
            /\ UNCHANGED last_proposal
       ELSE /\ last_proposal' = optimal_opportunity.proposal
            /\ IF ProfitAtLeast(optimal_opportunity.profit_pct,
                                config.min_profitability)
                 THEN executors' = create_executors(config,
                                                    optimal_opportunity.proposal)
                 ELSE executors' = <<>>
  /\ pc' = "idle"
  /\ outcome' = "returned"
  /\ UNCHANGED <<config, book, cycles, direction, i, order_amount,
                 best_profit_pct, best_proposal, opp1, opp2,
                 optimal_opportunity>>

Next ==
  \/ StartCycle
  \/ EvaluateSample
  \/ SampleInsufficientLiquidity
  \/ SampleQuoteProviderUnavailable
  \/ Cancel
  \/ FinishSweep
  \/ find_optimal_arb_opportunity
  \/ determine_actions

Spec == Init /\ [][Next]_vars

(* ---------------- Properties ------------------------------------------- *)

Samples == 0..(num_steps - 1)

\* the proposal and the fee-aware profitability of sample k of direction d
\* under the book of the cycle
SampleProposal(d, k) ==
  create_arb_proposals(IF d = 1 THEN "market_1" ELSE "market_2",
                       IF d = 1 THEN "market_2" ELSE "market_1",
                       config, book, SampleTable[config][k])[1]

SampleProfit(d, k) == profit_pct(SampleProposal(d, k))

ProfitEq(a, b) == a.num * b.den = b.num * a.den

\* the side of the slot's proposal behind the k-th executor
SlotSide(k) ==
  IF k = 1 THEN last_proposal.first_side ELSE last_proposal.second_side

Candidate(k) == executors[k].config.order_candidate

\* C1: when both sweeps have results the selector returns opp1 if opp1 is
\* strictly more profitable than opp2 and opp2 otherwise, a tie included;
\* with one result it returns that one, with none it returns None.
C1_DirectionSelection ==
  pc = "decide" =>
    /\ (opp1 # None /\ opp2 # None /\ ProfitGt(opp1.profit_pct, opp2.profit_pct))
         => optimal_opportunity = opp1
    /\ (opp1 # None /\ opp2 # None /\ ~ProfitGt(opp1.profit_pct, opp2.profit_pct))
         => optimal_opportunity = opp2
    /\ (opp1 # None /\ opp2 = None) => optimal_opportunity = opp1
    /\ (opp1 = None /\ opp2 # None) => optimal_opportunity = opp2
    /\ (opp1 = None /\ opp2 = None) => optimal_opportunity = None

\* both directions found the same profitability with different proposals and
\* the second one was selected
C1_Witness ==
  /\ pc = "decide"
  /\ opp1 # None
  /\ opp2 # None
  /\ ProfitEq(opp1.profit_pct, opp2.profit_pct)
  /\ opp1 # opp2
  /\ optimal_opportunity = opp2

\* the result of the sweep of direction d is the sample of the lowest index
\* among the samples of maximal profitability
IsFirstMaximum(opp, d) ==
  \E k \in Samples :
    /\ opp.proposal = SampleProposal(d, k)
    /\ opp.profit_pct = SampleProfit(d, k)
    /\ \A j \in Samples : ~ProfitGt(SampleProfit(d, j), SampleProfit(d, k))
    /\ \A j \in Samples : j < k => ProfitGt(SampleProfit(d, k), SampleProfit(d, j))

\* a step of a sweep that replaces the running best by another proposal
\* brings a strictly greater profitability
ReplacesOnlyByBetter ==
  (pc = "sweep" /\ pc' = "sweep" /\ i' = i + 1
     /\ best_proposal # None /\ best_proposal' # best_proposal)
    => ProfitGt(best_profit_pct', best_profit_pct)

\* C2: a returned sweep result has the maximal fee-aware profitability of
\* all samples and is the sample of the lowest index reaching it; within a
\* sweep the running best is replaced only by a strictly more profitable
\* sample.
C2_SweepReturnsFirstMaximum ==
  /\ [](pc = "select" =>
          /\ (opp1 # None => IsFirstMaximum(opp1, 1))
          /\ (opp2 # None => IsFirstMaximum(opp2, 2)))
  /\ [][ReplacesOnlyByBetter]_vars

\* the first sweep returned a sample that is not the first one, and the
\* next sample, a different proposal, is as profitable
C2_Witness ==
  /\ pc = "select"
  /\ opp1 # None
  /\ \E k \in 1..(num_steps - 2) :
       /\ opp1.proposal = SampleProposal(1, k)
       /\ SampleProposal(1, k + 1) # SampleProposal(1, k)
       /\ ProfitEq(SampleProfit(1, k + 1), SampleProfit(1, k))
       /\ ProfitGt(SampleProfit(1, k), SampleProfit(1, k - 1))

\* C3: a sample that fails with InsufficientLiquidity is skipped and never
\* ends the invocation.
C3_LiquidityFailureIsLocal == outcome # "InsufficientLiquidity"

\* a step taken during a sweep or before the comparison
NoPublishBeforeComplete ==
  (pc \in {"sweep", "select"}) =>
    (last_proposal' = last_proposal /\ executors' = <<>>)

\* C4: from the start of the sweeps until the comparison has completed no
\* step, an abort by cancellation or QuoteProviderUnavailable included,
\* changes last_proposal or emits executors.
C4_PublishAfterComplete == [][NoPublishBeforeComplete]_vars

\* a later invocation was aborted and the slot still holds an earlier winner
C4_Witness ==
  /\ outcome \in {"CancelledError", "QuoteProviderUnavailable"}
  /\ cycles > 1
  /\ last_proposal # None
  /\ executors = <<>>

NoPositiveSample ==
  \A d \in {1, 2} : \A k \in Samples : ~ProfitPositive(SampleProfit(d, k))

\* a step of determine_actions without a winner
NoWinnerNoAction ==
  (pc = "decide" /\ optimal_opportunity = None) =>
    (last_proposal' = last_proposal /\ executors' = <<>> /\ outcome' = "returned")

\* C5: a sweep returns a result only with a profitability > 0; the selector
\* returns None exactly when no sample of either direction has a
\* profitability > 0, and then determine_actions returns an empty list
\* normally and leaves last_proposal unchanged.
C5_NoOpportunityNoAction ==
  /\ [](pc \in {"select", "decide"} =>
          /\ (opp1 # None => ProfitPositive(opp1.profit_pct))
          /\ (opp2 # None => ProfitPositive(opp2.profit_pct)))
  /\ [](pc = "decide" => ((optimal_opportunity = None) <=> NoPositiveSample))
  /\ [][NoWinnerNoAction]_vars

\* an invocation found nothing and returned while the slot holds an earlier
\* winner
C5_Witness ==
  /\ outcome = "returned"
  /\ optimal_opportunity = None
  /\ last_proposal # None
  /\ executors = <<>>

\* C6: with max_order_amount < min_order_amount no quote is requested and
\* no proposal is built.
C6_InvalidRangeRunsNoSweep ==
  DecLt(config.max_order_amount, config.min_order_amount) =>
    /\ order_amount = None
    /\ best_proposal = None

BuffersNonNegative ==
  /\ config.market_1_slippage_buffer >= 0
  /\ config.market_2_slippage_buffer >= 0

\* C7: with buffers >= 0 and a quoted price > 0 the price of a buy
\* candidate is at least the quoted price and the price of a sell candidate
\* at most the quoted price (candidate prices are in hundredths).
C7_SlippageProtection ==
  \A k \in 1..Len(executors) :
    (BuffersNonNegative /\ SlotSide(k).order_price > 0) =>
      IF SlotSide(k).is_buy
        THEN Candidate(k).price >= SlotSide(k).order_price * 100
        ELSE Candidate(k).price <= SlotSide(k).order_price * 100

\* executors with a buy priced above and a sell priced below their quotes
C7_Witness ==
  /\ Len(executors) = 2
  /\ BuffersNonNegative
  /\ \E k \in 1..2 : /\ SlotSide(k).is_buy
                     /\ Candidate(k).price > SlotSide(k).order_price * 100
  /\ \E k \in 1..2 : /\ ~SlotSide(k).is_buy
                     /\ Candidate(k).price < SlotSide(k).order_price * 100

\* the buffer the claim assigns to a side
ClaimedBuffer(side) ==
  IF side.market_info.name = config.connector_1
    THEN config.market_1_slippage_buffer
    ELSE config.market_2_slippage_buffer

\* C8: a winning proposal yields exactly two candidates, first_side's then
\* second_side's, each a taker (non-maker) order with its side's amount and
\* direction, priced with market_1_slippage_buffer when the side's venue
\* name is connector_1 and with market_2_slippage_buffer otherwise.
C8_OrderCandidates ==
  executors # <<>> =>
    /\ Len(executors) = 2
    /\ \A k \in 1..2 :
         /\ Candidate(k).is_maker = FALSE
         /\ Candidate(k).order_type = "TAKER"
         /\ Candidate(k).amount = SlotSide(k).amount
         /\ Candidate(k).trade_type = (IF SlotSide(k).is_buy THEN "BUY" ELSE "SELL")
         /\ Candidate(k).trading_pair = SlotSide(k).market_info.trading_pair
         /\ Candidate(k).price =
              SlotSide(k).order_price *
                (IF SlotSide(k).is_buy THEN 100 + ClaimedBuffer(SlotSide(k))
                 ELSE 100 - ClaimedBuffer(SlotSide(k)))

\* executors of a configuration that names one connector twice with two
\* different buffers
C8_Witness ==
  /\ Len(executors) = 2
  /\ config.connector_1 = config.connector_2
  /\ config.market_1_slippage_buffer # config.market_2_slippage_buffer
  /\ Candidate(1).trade_type = "BUY"
  /\ Candidate(2).trade_type = "SELL"

ValidRange ==
  /\ DecLt(Dec(<<>>, 0), config.min_order_amount)
  /\ DecLe(config.min_order_amount, config.max_order_amount)

\* C9: with 0 < min_order_amount <= max_order_amount every sampled amount
\* lies in [min_order_amount, max_order_amount], sample 0 is
\* min_order_amount and sample num_steps - 1 is max_order_amount.
C9_SampleGrid ==
  (ValidRange /\ pc = "sweep" /\ i > 0) =>
    /\ DecLe(config.min_order_amount, order_amount)
    /\ DecLe(order_amount, config.max_order_amount)
    /\ (i = 1 => DecEq(order_amount, config.min_order_amount))
    /\ (i = num_steps => DecEq(order_amount, config.max_order_amount))

\* what a step may do to the slot and the emitted executors
GateStep ==
  /\ pc = "decide" =>
       /\ (executors' # <<>>) <=>
            (/\ optimal_opportunity # None
             /\ ProfitAtLeast(optimal_opportunity.profit_pct,
                              config.min_profitability))
       /\ optimal_opportunity # None =>
            last_proposal' = optimal_opportunity.proposal
       /\ optimal_opportunity = None => last_proposal' = last_proposal
  /\ pc # "decide" => (last_proposal' = last_proposal /\ executors' = <<>>)

\* C10: determine_actions emits executors exactly when the selector
\* returned a winner of profitability >= min_profitability, writes every
\* winner into last_proposal, gate passed or not, and nothing else writes
\* last_proposal or emits executors.
C10_ProfitabilityGate == [][GateStep]_vars

\* a winner below the gate was written into the slot and nothing was emitted
C10_Witness ==
  /\ outcome = "returned"
  /\ optimal_opportunity # None
  /\ ~ProfitAtLeast(optimal_opportunity.profit_pct, config.min_profitability)
  /\ last_proposal = optimal_opportunity.proposal
  /\ executors = <<>>

====
